---------------------------- MODULE Spec2Model ----------------------------
(***************************************************************************)
(* Model of query_reformatting.py: make_json_query (the query reformatter) *)
(* and the Streamlit script that calls it from the "Generate JSON" button. *)
(*                                                                         *)
(* Python values are records tagged with their kind k, so that             *)
(* an int, a bool, a str, a float, None, a list and a dict stay distinct.  *)
(* A model response is the text of the chat completion after lexing: a     *)
(* sequence of JSON tokens, which json_loads parses by recursive descent.  *)
(***************************************************************************)
EXTENDS Integers, Sequences, FiniteSets, TLC

(***************************************************************************)
(* Bounds of the model.                                                    *)
(***************************************************************************)
\* longest text typed into the query box and the OpenAI token box
MaxStrLen == 2

(***************************************************************************)
(* Python values.                                                          *)
(***************************************************************************)
None == [k |-> "none"]
Bool(x) == [k |-> "bool", bool |-> x]
Num(x) == [k |-> "int", int |-> x]
Float(x) == [k |-> "float", float |-> x]
Str(x) == [k |-> "str", str |-> x]
List(x) == [k |-> "list", items |-> x]
Dict(x) == [k |-> "dict", map |-> x]

\* a local name that no assignment has bound yet
Unbound == [k |-> "unbound"]

EmptyDict == Dict(<<>>)

\* d[key] = val on the mapping of a dict
Put(f, key, val) ==
    [q \in (DOMAIN f) \cup {key} |-> IF q = key THEN val ELSE f[q]]

(***************************************************************************)
(* JSON tokens of a response text.                                         *)
(***************************************************************************)
Tk(x) == [t |-> x]
LBrace == Tk("{")
RBrace == Tk("}")
LBracket == Tk("[")
RBracket == Tk("]")
Colon == Tk(":")
Comma == Tk(",")
TStr(x) == [t |-> "string", str |-> x]
TNum(x) == [t |-> "number", int |-> x]
TTrue == Tk("true")
TFalse == Tk("false")
TNull == Tk("null")
TNaN == Tk("NaN")
TInfinity == Tk("Infinity")
\* a lexeme that starts no JSON value (a bare word, a single-quoted string)
TBad == Tk("bad")

\* the three constants Python's decoder accepts beyond the JSON grammar
PyConstants == {"NaN", "Infinity", "-Infinity"}

ParseFail == [ok |-> FALSE, val |-> None, next |-> 0]
ParseOk(val, next) == [ok |-> TRUE, val |-> val, next |-> next]

(***************************************************************************)
(* json.loads: the decoder's scan_once over the tokens from position i.    *)
(* py is TRUE for Python's decoder, which takes NaN, Infinity and          *)
(* -Infinity as floats, and FALSE for the JSON grammar of RFC 8259.        *)
(***************************************************************************)
RECURSIVE ScanOnce(_, _, _)
RECURSIVE ScanMembers(_, _, _, _)
RECURSIVE ScanElements(_, _, _, _)

\* after "{" or ",": "key" ":" value, then "," or "}"; a later key replaces
\* an earlier equal one
ScanMembers(toks, i, acc, py) ==
    IF i + 1 > Len(toks) \/ toks[i].t # "string" \/ toks[i + 1].t # ":"
    THEN ParseFail
    ELSE LET r == ScanOnce(toks, i + 2, py) IN
         IF ~r.ok \/ r.next > Len(toks)
         THEN ParseFail
         ELSE LET acc2 == Put(acc, toks[i].str, r.val) IN
              CASE toks[r.next].t = "}" -> ParseOk(Dict(acc2), r.next + 1)
                [] toks[r.next].t = "," -> ScanMembers(toks, r.next + 1, acc2, py)
                [] OTHER -> ParseFail

\* after "[" or ",": value, then "," or "]"
ScanElements(toks, i, acc, py) ==
    LET r == ScanOnce(toks, i, py) IN
    IF ~r.ok \/ r.next > Len(toks)
    THEN ParseFail
    ELSE LET acc2 == Append(acc, r.val) IN
         CASE toks[r.next].t = "]" -> ParseOk(List(acc2), r.next + 1)
           [] toks[r.next].t = "," -> ScanElements(toks, r.next + 1, acc2, py)
           [] OTHER -> ParseFail

ScanOnce(toks, i, py) ==
    IF i > Len(toks)
    THEN ParseFail
    ELSE LET tok == toks[i] IN
         CASE tok.t = "string" -> ParseOk(Str(tok.str), i + 1)
           [] tok.t = "number" -> ParseOk(Num(tok.int), i + 1)
           [] tok.t = "true" -> ParseOk(Bool(TRUE), i + 1)
           [] tok.t = "false" -> ParseOk(Bool(FALSE), i + 1)
           [] tok.t = "null" -> ParseOk(None, i + 1)
           [] tok.t \in PyConstants ->
                IF py THEN ParseOk(Float(tok.t), i + 1) ELSE ParseFail
           [] tok.t = "{" ->
                IF i + 1 <= Len(toks) /\ toks[i + 1].t = "}"
                THEN ParseOk(EmptyDict, i + 2)
                ELSE ScanMembers(toks, i + 1, <<>>, py)
           [] tok.t = "[" ->
                IF i + 1 <= Len(toks) /\ toks[i + 1].t = "]"
                THEN ParseOk(List(<<>>), i + 2)
                ELSE ScanElements(toks, i + 1, <<>>, py)
           [] OTHER -> ParseFail

\* decode: one value, then the end of the text ("Extra data" otherwise)
Decode(toks, py) ==
    LET r == ScanOnce(toks, 1, py) IN
    IF r.ok /\ r.next = Len(toks) + 1 THEN r ELSE ParseFail

\* json.loads(text) of line 75: ok is FALSE where it raises JSONDecodeError
json_loads(toks) == Decode(toks, TRUE)

(***************************************************************************)
(* Text typed into a text box: a sequence of characters.                   *)
(***************************************************************************)
Chars == {" ", "x"}
Texts == UNION {[1..n -> Chars] : n \in 0..MaxStrLen}

RECURSIVE lstrip(_)
lstrip(t) == IF t = <<>> \/ Head(t) # " " THEN t ELSE lstrip(Tail(t))

RECURSIVE rstrip(_)
rstrip(t) ==
    IF t = <<>> \/ t[Len(t)] # " " THEN t ELSE rstrip(SubSeq(t, 1, Len(t) - 1))

\* str.strip()
strip(t) == rstrip(lstrip(t))

\* the truth value of a str in a condition
Truthy(t) == t # <<>>

(***************************************************************************)
(* Program constants.                                                      *)
(***************************************************************************)
\* make_json_query's default for count
CountDefault == 10
\* st.number_input("Count", min_value, max_value, value)
CountMin == 1
CountMax == 200
CountValue == 10
\* temperature of the chat completion
Temperature == 0

ModelName == "gpt-4o-mini"
SystemPrompt == "system_prompt"
ResponseFormat == "json_object"

\* the keys lines 78 to 82 assign
OverlayKeys ==
    {"token", "include_fulltext", "include_all_sentences",
     "include_match_sentences", "count"}

(***************************************************************************)
(* Response texts the model endpoint may return.                           *)
(***************************************************************************)
\* {"query": {"keywords": "maize AND (plant height)"}}
RScenario ==
    <<LBrace, TStr("query"), Colon,
        LBrace, TStr("keywords"), Colon, TStr("maize AND (plant height)"), RBrace,
      RBrace>>

\* the "valid output format" of the prompt, with values of its own
RTemplate ==
    <<LBrace, TStr("token"), Colon, TStr("<ACCESS_TOKEN>"), Comma,
      TStr("query"), Colon, LBrace, TStr("keywords"), Colon, TStr("maize"), RBrace, Comma,
      TStr("include_fulltext"), Colon, TTrue, Comma,
      TStr("include_all_sentences"), Colon, TTrue, Comma,
      TStr("include_match_sentences"), Colon, TFalse, Comma,
      TStr("since_num"), Colon, TNum(0), Comma,
      TStr("count"), Colon, TNum(50), RBrace>>

\* {}
REmpty == <<LBrace, RBrace>>
\* {"since_num": 5}
RSince == <<LBrace, TStr("since_num"), Colon, TNum(5), RBrace>>
\* {"count": "ten", "foo": [1, null]}
RUnknown ==
    <<LBrace, TStr("count"), Colon, TStr("ten"), Comma,
      TStr("foo"), Colon, LBracket, TNum(1), Comma, TNull, RBracket, RBrace>>
\* {"since_num": 0, "since_num": 5}
RDuplicate ==
    <<LBrace, TStr("since_num"), Colon, TNum(0), Comma,
      TStr("since_num"), Colon, TNum(5), RBrace>>

ObjectResponses == {RScenario, RTemplate, REmpty, RSince, RUnknown, RDuplicate}

\* valid JSON whose top-level value is no object
NonObjectResponses ==
    {<<LBracket, RBracket>>,
     <<LBracket, LBrace, TStr("query"), Colon, TStr("maize"), RBrace, RBracket>>,
     <<TNum(10)>>, <<TStr("maize")>>, <<TTrue>>, <<TNull>>}

\* texts json.loads rejects
MalformedResponses ==
    {<<>>,
     <<LBrace>>,
     <<LBrace, TStr("query"), Colon, RBrace>>,
     <<LBrace, TStr("query"), TStr("maize"), RBrace>>,
     <<LBrace, TStr("count"), Colon, TNum(10), Comma, RBrace>>,
     <<LBrace, TNum(1), Colon, TNum(10), RBrace>>,
     <<LBracket, TNum(1), Comma, RBracket>>,
     <<TBad>>,
     <<LBrace, RBrace, LBrace, RBrace>>}

\* texts outside the JSON grammar that use Python's float constants
\* {"since_num": NaN}
RNaN == <<LBrace, TStr("since_num"), Colon, TNaN, RBrace>>

PyConstantResponses ==
    {RNaN,
     <<LBrace, TStr("query"), Colon, LBrace, TStr("year"), Colon, TInfinity, RBrace, RBrace>>,
     <<TNaN>>,
     <<LBracket, TInfinity, RBracket>>}

Responses ==
    ObjectResponses \cup NonObjectResponses \cup MalformedResponses
        \cup PyConstantResponses

(***************************************************************************)
(* State.  Every browser session runs the script on its own, so every      *)
(* variable is a function of the session.                                  *)
(***************************************************************************)
Sessions == {"s1", "s2"}

VARIABLES
    pc,           \* where the session's script run stands
    args,         \* make_json_query's parameters
    client,       \* the api key of the OpenAI client of line 63
    request,      \* what chat.completions.create was last called with
    calls,        \* the calls to chat.completions.create of this invocation
    response,     \* response.choices[0].message.content
    output_json,  \* the local of lines 75 to 84
    result,       \* the value make_json_query returned
    error,        \* the exception that ended the invocation
    ui,           \* the values of the widgets of lines 91 to 102
    shown,        \* what the page shows under the button
    displayed     \* the object st.json renders

vars ==
    <<pc, args, client, request, calls, response, output_json, result, error,
      ui, shown, displayed>>

NoArgs ==
    [user_query |-> <<>>, textpresso_token |-> Unbound, openai_token |-> <<>>,
     include_fulltext |-> Unbound, include_all_sentences |-> Unbound,
     include_match_sentences |-> Unbound, count |-> Unbound]

NoRequest ==
    [api_key |-> <<>>, model |-> "", system |-> "", user |-> <<>>,
     temperature |-> 0, response_format |-> ""]

\* the widgets as lines 91 to 102 create them
InitialWidgets ==
    [user_query |-> <<>>, textpresso_token |-> "", openai_token |-> <<>>,
     include_fulltext |-> FALSE, include_all_sentences |-> FALSE,
     include_match_sentences |-> FALSE, count |-> CountValue]

Init ==
    /\ pc = [s \in Sessions |-> "idle"]
    /\ args = [s \in Sessions |-> NoArgs]
    /\ client = [s \in Sessions |-> <<>>]
    /\ request = [s \in Sessions |-> NoRequest]
    /\ calls = [s \in Sessions |-> 0]
    /\ response = [s \in Sessions |-> <<>>]
    /\ output_json = [s \in Sessions |-> Unbound]
    /\ result = [s \in Sessions |-> Unbound]
    /\ error = [s \in Sessions |-> ""]
    /\ ui = [s \in Sessions |-> InitialWidgets]
    /\ shown = [s \in Sessions |-> "none"]
    /\ displayed = [s \in Sessions |-> Unbound]

\* the script run of the session is over (or none has started)
ScriptEnded(s) == pc[s] \in {"idle", "failed"}

\* a new frame of make_json_query with parameters a
Enter(s, a) ==
    /\ pc' = [pc EXCEPT ![s] = "entered"]
    /\ args' = [args EXCEPT ![s] = a]
    /\ client' = [client EXCEPT ![s] = <<>>]
    /\ request' = [request EXCEPT ![s] = NoRequest]
    /\ calls' = [calls EXCEPT ![s] = 0]
    /\ response' = [response EXCEPT ![s] = <<>>]
    /\ output_json' = [output_json EXCEPT ![s] = Unbound]
    /\ result' = [result EXCEPT ![s] = Unbound]
    /\ error' = [error EXCEPT ![s] = ""]

\* the script run ends and its frame is gone
Leave(s) ==
    /\ pc' = [pc EXCEPT ![s] = "idle"]
    /\ args' = [args EXCEPT ![s] = NoArgs]
    /\ client' = [client EXCEPT ![s] = <<>>]
    /\ request' = [request EXCEPT ![s] = NoRequest]
    /\ calls' = [calls EXCEPT ![s] = 0]
    /\ response' = [response EXCEPT ![s] = <<>>]
    /\ output_json' = [output_json EXCEPT ![s] = Unbound]
    /\ result' = [result EXCEPT ![s] = Unbound]
    /\ error' = [error EXCEPT ![s] = ""]

\* the exception exc leaves make_json_query
Raise(s, exc) ==
    /\ pc' = [pc EXCEPT ![s] = "failed"]
    /\ error' = [error EXCEPT ![s] = exc]

(***************************************************************************)
(* make_json_query, one action per statement.                              *)
(***************************************************************************)
\* a call make_json_query(...) with parameters drawn from A
Invoke(s, A) ==
    /\ pc[s] \in {"idle", "returned", "failed"}
    /\ \E a \in A : Enter(s, a)
    /\ UNCHANGED <<ui, shown, displayed>>

\* CreateClient with the client a module-level name all sessions share
CreateClient_global(s) ==
    /\ pc[s] = "entered"
    /\ client' = [t \in Sessions |-> args[s].openai_token]
    /\ pc' = [pc EXCEPT ![s] = "client"]
    /\ UNCHANGED <<args, request, calls, response, output_json, result, error,
                   ui, shown, displayed>>

\* line 63
CreateClient(s) ==
    /\ pc[s] = "entered"
    /\ client' = [client EXCEPT ![s] = args[s].openai_token]
    /\ pc' = [pc EXCEPT ![s] = "client"]
    /\ UNCHANGED <<args, request, calls, response, output_json, result, error,
                   ui, shown, displayed>>

\* CallModel with a failed call issued again (once) instead of raised
CallModel_retry(s, R) ==
    /\ pc[s] = "client"
    /\ calls' = [calls EXCEPT ![s] = @ + 1]
    /\ request' = [request EXCEPT ![s] =
            [api_key |-> client[s], model |-> ModelName,
             system |-> SystemPrompt, user |-> args[s].user_query,
             temperature |-> Temperature, response_format |-> ResponseFormat]]
    /\ \/ /\ \E r \in R : response' = [response EXCEPT ![s] = r]
          /\ pc' = [pc EXCEPT ![s] = "responded"]
          /\ UNCHANGED error
       \/ /\ IF calls[s] < 1
             THEN UNCHANGED <<pc, error>>
             ELSE Raise(s, "APIError")
          /\ UNCHANGED response
    /\ UNCHANGED <<args, client, output_json, result, ui, shown, displayed>>

\* lines 65 to 73: the endpoint answers with a text of R, or the call raises
CallModel(s, R) ==
    /\ pc[s] = "client"
    /\ calls' = [calls EXCEPT ![s] = @ + 1]
    /\ request' = [request EXCEPT ![s] =
            [api_key |-> client[s], model |-> ModelName,
             system |-> SystemPrompt, user |-> args[s].user_query,
             temperature |-> Temperature, response_format |-> ResponseFormat]]
    /\ \/ /\ \E r \in R : response' = [response EXCEPT ![s] = r]
          /\ pc' = [pc EXCEPT ![s] = "responded"]
          /\ UNCHANGED error
       \/ /\ Raise(s, "APIError")
          /\ UNCHANGED response
    /\ UNCHANGED <<args, client, output_json, result, ui, shown, displayed>>

\* line 75
Parse(s) ==
    /\ pc[s] = "responded"
    /\ LET r == json_loads(response[s]) IN
       IF r.ok
       THEN /\ output_json' = [output_json EXCEPT ![s] = r.val]
            /\ pc' = [pc EXCEPT ![s] = "parsed"]
            /\ UNCHANGED error
       ELSE /\ Raise(s, "JSONDecodeError")
            /\ UNCHANGED output_json
    /\ UNCHANGED <<args, client, request, calls, response, result,
                   ui, shown, displayed>>

\* SetItem that starts from an empty dict when output_json is no dict
SetItem_coerce(s, from, to, key, val) ==
    /\ pc[s] = from
    /\ output_json' =
        [output_json EXCEPT ![s] =
            Dict(Put(IF @.k = "dict" THEN @.map ELSE <<>>, key, val))]
    /\ pc' = [pc EXCEPT ![s] = to]
    /\ UNCHANGED <<args, client, request, calls, response, result, error,
                   ui, shown, displayed>>

\* output_json[key] = val: a dict takes the item, any other value raises
SetItem(s, from, to, key, val) ==
    /\ pc[s] = from
    /\ IF output_json[s].k = "dict"
       THEN /\ output_json' =
                [output_json EXCEPT ![s] = Dict(Put(@.map, key, val))]
            /\ pc' = [pc EXCEPT ![s] = to]
            /\ UNCHANGED error
       ELSE /\ Raise(s, "TypeError")
            /\ UNCHANGED output_json
    /\ UNCHANGED <<args, client, request, calls, response, result,
                   ui, shown, displayed>>

\* InjectToken that binds output_json to a new dict holding the token only
InjectToken_rebind(s) ==
    /\ pc[s] = "parsed"
    /\ IF output_json[s].k = "dict"
       THEN /\ output_json' =
                [output_json EXCEPT ![s] =
                    Dict(Put(<<>>, "token", args[s].textpresso_token))]
            /\ pc' = [pc EXCEPT ![s] = "token"]
            /\ UNCHANGED error
       ELSE /\ Raise(s, "TypeError")
            /\ UNCHANGED output_json
    /\ UNCHANGED <<args, client, request, calls, response, result,
                   ui, shown, displayed>>

\* line 78
InjectToken(s) ==
    SetItem(s, "parsed", "token", "token", args[s].textpresso_token)

\* line 79
InjectFulltext(s) ==
    SetItem(s, "token", "fulltext", "include_fulltext", args[s].include_fulltext)

\* line 80
InjectAllSentences(s) ==
    SetItem(s, "fulltext", "all_sentences", "include_all_sentences",
            args[s].include_all_sentences)

\* line 81
InjectMatchSentences(s) ==
    SetItem(s, "all_sentences", "match_sentences", "include_match_sentences",
            args[s].include_match_sentences)

\* InjectCount as dict.setdefault: a count the model gave is kept
InjectCount_setdefault(s) ==
    IF output_json[s].k = "dict" /\ "count" \in DOMAIN output_json[s].map
    THEN SetItem(s, "match_sentences", "count", "count",
                 output_json[s].map["count"])
    ELSE SetItem(s, "match_sentences", "count", "count", args[s].count)

\* line 82
InjectCount(s) ==
    SetItem(s, "match_sentences", "count", "count", args[s].count)

\* Return that fills in the pagination offset of the prompt's sample output
Return_since_num(s) ==
    /\ pc[s] = "count"
    /\ result' = [result EXCEPT ![s] =
            IF "since_num" \in DOMAIN output_json[s].map
            THEN output_json[s]
            ELSE Dict(Put(output_json[s].map, "since_num", Num(0)))]
    /\ pc' = [pc EXCEPT ![s] = "returned"]
    /\ UNCHANGED <<args, client, request, calls, response, output_json, error,
                   ui, shown, displayed>>

\* Return with output_json a module-level name: the dict another session
\* has bound, when there is one, is what comes back
Return_global(s) ==
    /\ pc[s] = "count"
    /\ result' = [result EXCEPT ![s] =
            IF \E t \in Sessions \ {s} : output_json[t] # Unbound
            THEN output_json[CHOOSE t \in Sessions \ {s} : output_json[t] # Unbound]
            ELSE output_json[s]]
    /\ pc' = [pc EXCEPT ![s] = "returned"]
    /\ UNCHANGED <<args, client, request, calls, response, output_json, error,
                   ui, shown, displayed>>

\* line 84
Return(s) ==
    /\ pc[s] = "count"
    /\ result' = [result EXCEPT ![s] = output_json[s]]
    /\ pc' = [pc EXCEPT ![s] = "returned"]
    /\ UNCHANGED <<args, client, request, calls, response, output_json, error,
                   ui, shown, displayed>>

\* the body of make_json_query after the call's entry
Body(s, R) ==
    \/ CreateClient(s)
    \/ CallModel(s, R)
    \/ Parse(s)
    \/ InjectToken(s)
    \/ InjectFulltext(s)
    \/ InjectAllSentences(s)
    \/ InjectMatchSentences(s)
    \/ InjectCount(s)
    \/ Return(s)

(***************************************************************************)
(* The reformatter called directly, with any parameters.                   *)
(***************************************************************************)
DirectTexts == {<<>>, <<"x">>}
TargetTokens == {"", "T"}
DirectCounts == {0, CountDefault, CountMax}

DirectArgs ==
    [user_query : DirectTexts,
     textpresso_token : {Str(t) : t \in TargetTokens},
     openai_token : DirectTexts,
     include_fulltext : {Bool(b) : b \in BOOLEAN},
     include_all_sentences : {Bool(b) : b \in BOOLEAN},
     include_match_sentences : {Bool(b) : b \in BOOLEAN},
     count : {Num(c) : c \in DirectCounts}]

Caller == "s1"

Next ==
    \/ Invoke(Caller, DirectArgs)
    \/ Body(Caller, Responses)

Spec == Init /\ [][Next]_vars

(***************************************************************************)
(* Two sessions calling the reformatter at the same time.                  *)
(***************************************************************************)
ConcArgs ==
    {[user_query |-> <<"x">>, textpresso_token |-> Str("T"),
      openai_token |-> <<"x">>, include_fulltext |-> Bool(TRUE),
      include_all_sentences |-> Bool(FALSE),
      include_match_sentences |-> Bool(TRUE), count |-> Num(CountDefault)],
     [user_query |-> <<"x", "x">>, textpresso_token |-> Str("U"),
      openai_token |-> <<"x", "x">>, include_fulltext |-> Bool(FALSE),
      include_all_sentences |-> Bool(TRUE),
      include_match_sentences |-> Bool(FALSE), count |-> Num(CountMax)]}

ConcResponses == {RScenario, RTemplate, RSince, <<LBracket, RBracket>>, <<LBrace>>}

NextConc ==
    \E s \in Sessions :
        \/ Invoke(s, ConcArgs)
        \/ Body(s, ConcResponses)

SpecConc == Init /\ [][NextConc]_vars

(***************************************************************************)
(* The Streamlit script of lines 88 to 109.  A change of a widget reruns   *)
(* the script with the button not pressed, which redraws the page.         *)
(***************************************************************************)
WidgetTokens == {"", "T"}
WidgetCounts == {CountMin, CountValue, CountMax}

\* the widget values become w and the script reruns to its end
Rerun(s, w) ==
    /\ ScriptEnded(s)
    /\ w # ui[s]
    /\ ui' = [ui EXCEPT ![s] = w]
    /\ Leave(s)
    /\ shown' = [shown EXCEPT ![s] = "none"]
    /\ displayed' = [displayed EXCEPT ![s] = Unbound]

\* line 91
TypeQuery(s) ==
    \E t \in Texts : Rerun(s, [ui[s] EXCEPT !.user_query = t])

\* line 94
TypeTextpressoToken(s) ==
    \E t \in WidgetTokens : Rerun(s, [ui[s] EXCEPT !.textpresso_token = t])

\* line 95
TypeOpenAIToken(s) ==
    \E t \in Texts : Rerun(s, [ui[s] EXCEPT !.openai_token = t])

\* line 97
ToggleFulltext(s) ==
    Rerun(s, [ui[s] EXCEPT !.include_fulltext = ~@])

\* line 98
ToggleAllSentences(s) ==
    Rerun(s, [ui[s] EXCEPT !.include_all_sentences = ~@])

\* line 99
ToggleMatchSentences(s) ==
    Rerun(s, [ui[s] EXCEPT !.include_match_sentences = ~@])

\* line 102
SetCount(s) ==
    \E c \in WidgetCounts : Rerun(s, [ui[s] EXCEPT !.count = c])

\* line 106: make_json_query(user_query, textpresso_token, openai_token, count)
\* binds its fourth positional argument to include_fulltext and leaves the
\* last three parameters at their defaults of lines 7 and 8
GenerateArgs(w) ==
    [user_query |-> w.user_query,
     textpresso_token |-> Str(w.textpresso_token),
     openai_token |-> w.openai_token,
     include_fulltext |-> Num(w.count),
     include_all_sentences |-> Bool(FALSE),
     include_match_sentences |-> Bool(FALSE),
     count |-> Num(CountDefault)]

\* GenerateGuard without the strip() of either text
GenerateGuard_nostrip(w) ==
    Truthy(w.user_query) /\ Truthy(w.openai_token)

\* line 105
GenerateGuard(w) ==
    Truthy(strip(w.user_query)) /\ Truthy(strip(w.openai_token))

\* lines 104 to 109, up to the call of line 106 or the warning of line 109
PressGenerate(s) ==
    /\ ScriptEnded(s)
    /\ IF GenerateGuard(ui[s])
       THEN /\ Enter(s, GenerateArgs(ui[s]))
            /\ shown' = [shown EXCEPT ![s] = "none"]
       ELSE /\ Leave(s)
            /\ shown' = [shown EXCEPT ![s] = "warning"]
    /\ displayed' = [displayed EXCEPT ![s] = Unbound]
    /\ UNCHANGED ui

\* line 107, after make_json_query has returned
Display(s) ==
    /\ pc[s] = "returned"
    /\ shown' = [shown EXCEPT ![s] = "json"]
    /\ displayed' = [displayed EXCEPT ![s] = result[s]]
    /\ Leave(s)
    /\ UNCHANGED ui

UIResponses == {RScenario, RTemplate, <<LBracket, RBracket>>, <<LBrace>>}

User == "s1"

NextUI ==
    \/ TypeQuery(User)
    \/ TypeTextpressoToken(User)
    \/ TypeOpenAIToken(User)
    \/ ToggleFulltext(User)
    \/ ToggleAllSentences(User)
    \/ ToggleMatchSentences(User)
    \/ SetCount(User)
    \/ PressGenerate(User)
    \/ Body(User, UIResponses)
    \/ Display(User)

SpecUI == Init /\ [][NextUI]_vars

(***************************************************************************)
(* Vocabulary of the properties.                                           *)
(***************************************************************************)
\* the text is in the JSON grammar (RFC 8259)
IsValidJSON(toks) == Decode(toks, FALSE).ok

\* the value a valid JSON text denotes
JSONValue(toks) == Decode(toks, FALSE).val

\* line 75 has run in the current invocation of s
ParseHasRun(s) ==
    \/ pc[s] \in {"parsed", "token", "fulltext", "all_sentences",
                  "match_sentences", "count", "returned"}
    \/ pc[s] = "failed" /\ error[s] # "APIError"

\* some assignment of lines 78 to 82 has taken effect
OverlayStarted(s) ==
    pc[s] \in {"token", "fulltext", "all_sentences", "match_sentences",
               "count", "returned"}

\* the text has a character that is no whitespace
NonBlank(t) == \E i \in 1..Len(t) : t[i] # " "

\* the envelope for parameters a and the parsed object m
Envelope(a, m) ==
    Dict([key \in (DOMAIN m) \cup OverlayKeys |->
            CASE key = "token" -> a.textpresso_token
              [] key = "include_fulltext" -> a.include_fulltext
              [] key = "include_all_sentences" -> a.include_all_sentences
              [] key = "include_match_sentences" -> a.include_match_sentences
              [] key = "count" -> a.count
              [] OTHER -> m[key]])

\* {"keywords": "maize AND (plant height)"}
ScenarioQuery == Dict([key \in {"keywords"} |-> Str("maize AND (plant height)")])

ScenarioArgs(a) ==
    /\ a.textpresso_token = Str("T")
    /\ a.include_fulltext = Bool(FALSE)
    /\ a.include_all_sentences = Bool(FALSE)
    /\ a.include_match_sentences = Bool(FALSE)
    /\ a.count = Num(10)

ScenarioEnvelope ==
    Dict([key \in OverlayKeys \cup {"query"} |->
            CASE key = "token" -> Str("T")
              [] key = "query" -> ScenarioQuery
              [] key = "count" -> Num(10)
              [] OTHER -> Bool(FALSE)])

(***************************************************************************)
(* Properties.                                                             *)
(***************************************************************************)
\* C1: whenever make_json_query has returned, the envelope is a dict that
\* holds the five overlay keys, each with exactly the value passed in,
\* whatever the model response held for those keys.
C1_OverlayEqualsInputs ==
    \A s \in Sessions :
        pc[s] = "returned" =>
            /\ result[s].k = "dict"
            /\ OverlayKeys \subseteq DOMAIN result[s].map
            /\ result[s].map["token"] = args[s].textpresso_token
            /\ result[s].map["include_fulltext"] = args[s].include_fulltext
            /\ result[s].map["include_all_sentences"] = args[s].include_all_sentences
            /\ result[s].map["include_match_sentences"] =
                    args[s].include_match_sentences
            /\ result[s].map["count"] = args[s].count

\* C1: returned on a response that gave other values for all five keys
C1_Witness ==
    /\ pc[Caller] = "returned"
    /\ response[Caller] = RTemplate
    /\ args[Caller].textpresso_token = Str("T")
    /\ args[Caller].include_fulltext = Bool(FALSE)
    /\ args[Caller].include_all_sentences = Bool(FALSE)
    /\ args[Caller].include_match_sentences = Bool(TRUE)
    /\ args[Caller].count = Num(CountMax)

\* C2: the envelope the page displays has the three include flags equal to
\* the three checkboxes and count equal to the Count input.
C2_DisplayedMatchesWidgets ==
    \A s \in Sessions :
        shown[s] = "json" =>
            /\ displayed[s].map["include_fulltext"] = Bool(ui[s].include_fulltext)
            /\ displayed[s].map["include_all_sentences"] =
                    Bool(ui[s].include_all_sentences)
            /\ displayed[s].map["include_match_sentences"] =
                    Bool(ui[s].include_match_sentences)
            /\ displayed[s].map["count"] = Num(ui[s].count)

\* C3: whenever make_json_query has returned, every key of the parsed
\* response other than the five overlay keys is in the envelope with the
\* value the response gave it; the query object of the response comes back
\* deep-equal.
C3_PassThrough ==
    \A s \in Sessions :
        pc[s] = "returned" =>
            /\ \A key \in (DOMAIN json_loads(response[s]).val.map) \ OverlayKeys :
                    /\ key \in DOMAIN result[s].map
                    /\ result[s].map[key] = json_loads(response[s]).val.map[key]
            /\ response[s] = RScenario => result[s].map["query"] = ScenarioQuery
            /\ response[s] = RTemplate =>
                    /\ result[s].map["query"] =
                            Dict([key \in {"keywords"} |-> Str("maize")])
                    /\ result[s].map["since_num"] = Num(0)

\* C3: returned on a response with a query object, since_num and the
\* overlay keys
C3_Witness ==
    /\ pc[Caller] = "returned"
    /\ response[Caller] = RTemplate
    /\ result[Caller].map["query"] = Dict([key \in {"keywords"} |-> Str("maize")])

\* C4: on a response text that is not valid JSON the invocation does not get
\* past line 75: no overlay is applied to anything parsed from the text and
\* nothing is returned.
C4_InvalidJsonFails ==
    \A s \in Sessions :
        (ParseHasRun(s) /\ ~IsValidJSON(response[s])) =>
            /\ ~OverlayStarted(s)
            /\ pc[s] # "returned"
            /\ result[s] = Unbound

\* C5: on a response text that is valid JSON with an array or a scalar at
\* the top, no overlay takes effect and nothing is returned; the invocation
\* ends, if at all, in the TypeError of line 78.
C5_NonObjectFails ==
    \A s \in Sessions :
        (ParseHasRun(s) /\ IsValidJSON(response[s])
            /\ JSONValue(response[s]).k # "dict") =>
            /\ ~OverlayStarted(s)
            /\ result[s] = Unbound
            /\ output_json[s] = JSONValue(response[s])
            /\ pc[s] = "failed" => error[s] = "TypeError"

\* C5: failed at line 78 on the response [{"query": "maize"}]
C5_Witness ==
    /\ pc[Caller] = "failed"
    /\ error[Caller] = "TypeError"
    /\ response[Caller] =
        <<LBracket, LBrace, TStr("query"), Colon, TStr("maize"), RBrace, RBracket>>
    /\ args[Caller].count = Num(CountMax)

\* C6: an invocation calls the endpoint at most once; the call has been
\* made before anything is parsed or overlaid; a failed call ends the
\* invocation with the call's error, after that one call, with nothing
\* parsed and nothing returned.
C6_OneCall ==
    \A s \in Sessions :
        /\ calls[s] <= 1
        /\ pc[s] \in {"idle", "entered", "client"} => calls[s] = 0
        /\ (pc[s] = "responded" \/ ParseHasRun(s)) => calls[s] = 1
        /\ output_json[s] # Unbound => calls[s] = 1
        /\ error[s] = "APIError" =>
                /\ pc[s] = "failed"
                /\ calls[s] = 1
                /\ output_json[s] = Unbound
                /\ result[s] = Unbound

\* C6: the one call has failed and the invocation with it
C6_Witness ==
    /\ pc[Caller] = "failed"
    /\ error[Caller] = "APIError"
    /\ calls[Caller] = 1
    /\ request[Caller].user = args[Caller].user_query

\* C7: make_json_query runs, and the endpoint is called, only with a query
\* and a model token that both hold a non-whitespace character; the warning
\* is shown only when one of the two boxes holds none, and then nothing was
\* invoked or called.
C7_GuardedInvocation ==
    \A s \in Sessions :
        /\ (pc[s] # "idle" \/ calls[s] > 0 \/ shown[s] = "json") =>
                /\ NonBlank(IF shown[s] = "json" THEN ui[s].user_query
                            ELSE args[s].user_query)
                /\ NonBlank(IF shown[s] = "json" THEN ui[s].openai_token
                            ELSE args[s].openai_token)
        /\ shown[s] = "warning" =>
                /\ pc[s] = "idle"
                /\ calls[s] = 0
                /\ result[s] = Unbound
                /\ ~(NonBlank(ui[s].user_query) /\ NonBlank(ui[s].openai_token))

\* C7: the warning for a query of whitespace only, with a model token given
C7_Witness ==
    /\ shown[User] = "warning"
    /\ ui[User].user_query = <<" ">>
    /\ NonBlank(ui[User].openai_token)
    /\ calls[User] = 0

\* C8: two invocations that were given equal parameters and got an equal
\* response text have ended the same way with equal envelopes.
C8_Deterministic ==
    \A s, t \in Sessions :
        (/\ ParseHasRun(s) /\ pc[s] \in {"returned", "failed"}
         /\ ParseHasRun(t) /\ pc[t] \in {"returned", "failed"}
         /\ args[s] = args[t]
         /\ response[s] = response[t]) =>
            /\ pc[s] = pc[t]
            /\ error[s] = error[t]
            /\ result[s] = result[t]

\* C8: both sessions have returned on the same parameters and response
C8_Witness ==
    /\ pc["s1"] = "returned"
    /\ pc["s2"] = "returned"
    /\ args["s1"] = args["s2"]
    /\ response["s1"] = RTemplate
    /\ response["s2"] = RTemplate

\* C9: with two sessions interleaved in any way, the client, the request
\* and the dict of a session are those of its own parameters and its own
\* response, at every step and in the envelope it returns.
C9_Independent ==
    \A s \in Sessions :
        /\ pc[s] \in {"client", "responded"} \/ ParseHasRun(s) \/ error[s] = "APIError" =>
                client[s] = args[s].openai_token
        /\ calls[s] > 0 =>
                /\ request[s].api_key = args[s].openai_token
                /\ request[s].user = args[s].user_query
        /\ pc[s] = "parsed" => output_json[s] = json_loads(response[s]).val
        /\ pc[s] = "returned" =>
                result[s] = Envelope(args[s], json_loads(response[s]).val.map)

\* C9: one session has returned while the other, with other parameters and
\* another response, is in the middle of its overlay
C9_Witness ==
    /\ pc["s1"] = "returned"
    /\ pc["s2"] \in {"token", "fulltext", "all_sentences", "match_sentences"}
    /\ args["s1"].textpresso_token # args["s2"].textpresso_token
    /\ args["s1"].openai_token # args["s2"].openai_token
    /\ response["s1"] = RTemplate
    /\ response["s2"] = RSince

\* C10: the keys of the envelope are the keys of the parsed response and
\* the five overlay keys, no more and no fewer; for the response
\* {"query": {"keywords": "maize AND (plant height)"}}, token "T", all
\* includes false and count 10 the envelope is exactly the one expected.
C10_KeySet ==
    \A s \in Sessions :
        pc[s] = "returned" =>
            /\ DOMAIN result[s].map =
                    (DOMAIN json_loads(response[s]).val.map) \cup OverlayKeys
            /\ "since_num" \in DOMAIN result[s].map <=>
                    response[s] \in {RTemplate, RSince, RDuplicate, RNaN}
            /\ (response[s] = RScenario /\ ScenarioArgs(args[s])) =>
                    result[s] = ScenarioEnvelope

\* C10: the scenario has returned
C10_Witness ==
    /\ pc[Caller] = "returned"
    /\ response[Caller] = RScenario
    /\ ScenarioArgs(args[Caller])
    /\ "since_num" \notin DOMAIN result[Caller].map

=============================================================================
